---- MODULE Spec2Model ----
(***************************************************************************)
(* State-machine model of visa.py: the login loop, the polling loop of     *)
(* start_visa_process, the slot queries and reschedule().                  *)
(*                                                                         *)
(* The browser driver, the HTTP client and the notification channels are   *)
(* the environment: every call to them draws its outcome (a value or an    *)
(* exception) from a small set.  The clock counts seconds; time.sleep of   *)
(* STEP_TIME (0.5 s) is below the clock's resolution and only recorded.    *)
(* info_logger and print are taken to return normally.                     *)
(***************************************************************************)
EXTENDS Integers, Sequences, FiniteSets, TLC

\* ------------------------------------------------------------- bounds
MaxLen == 2
MaxDate == 4
MaxClock == 10800

\* ------------------------------------------------ program constants
MINUTE == 60
HOUR == 60 * MINUTE
REQUEST_ATTEMPTS == 5
PRIOD_START == 2
PRIOD_END == 3
RETRY_TIME_L_BOUND == 3599
RETRY_TIME_U_BOUND == 3600
WORK_LIMIT_TIME == 1
WORK_COOLDOWN_TIME == 1
BAN_COOLDOWN_TIME == 1
SUCCESS_PATTERNS ==
    {"Successfully Scheduled", "Usted ha programado exitosamente su cita de visa"}

\* ------------------------------------------------------------ values
\* A date is a day number 1..MaxDate; NoDate stands for every falsy or
\* unparseable value ("" / None / False): `not NoDate` is true and
\* datetime.strptime(NoDate, "%Y-%m-%d") raises.
NoDate == 0
Dates == 1..MaxDate
\* A time string "HH:MM" is the pair <<HH, MM>>; NoTime is the falsy value.
NoTime == <<>>
Times == {<<9, 0>>, <<9, 30>>, <<10, 30>>, <<11, 0>>}
DESIRED_TIME == <<10, 0>>
NoResponse == [status |-> 0, body |-> {}]
Phrases == SUCCESS_PATTERNS \cup {"Error"}
Responses == [status : {200, 500}, body : SUBSET Phrases]

SeqsUpTo(S, n) == UNION {[1..k -> S] : k \in 0..n}
NonEmptySeqsUpTo(S, n) == UNION {[1..k -> S] : k \in 1..n}

\* Responses of the environment.
DateLists == SeqsUpTo(Dates \cup {NoDate}, MaxLen)
TimeLists == SeqsUpTo(Times, MaxLen)
CasItems == [date : Dates \cup {NoDate}, business_day : {"true", "false", "missing"}]
CasLists == SeqsUpTo(CasItems, MaxLen)

\* ---------------------------------------------------- pure functions
\* datetime.strptime(t, "%H:%M") as minutes since midnight.
ParseTime(t) == t[1] * 60 + t[2]

Abs(x) == IF x < 0 THEN -x ELSE x

\* Mutant: among equally close times the last one wins.
closest_time_last_wins(available_hours, desired_time) ==
    LET key(t) == Abs(ParseTime(t) - ParseTime(desired_time))
        best == CHOOSE i \in 1..Len(available_hours) :
                    /\ \A j \in 1..Len(available_hours) :
                          key(available_hours[i]) <= key(available_hours[j])
                    /\ \A j \in (i + 1)..Len(available_hours) :
                          key(available_hours[j]) > key(available_hours[i])
    IN  available_hours[best]

\* closest_time_to_desired_time: min(available_hours, key=|t - target|);
\* Python's min returns the first element with the minimal key.
closest_time_to_desired_time(available_hours, desired_time) ==
    LET key(t) == Abs(ParseTime(t) - ParseTime(desired_time))
        best == CHOOSE i \in 1..Len(available_hours) :
                    /\ \A j \in 1..Len(available_hours) :
                          key(available_hours[i]) <= key(available_hours[j])
                    /\ \A j \in 1..(i - 1) :
                          key(available_hours[j]) > key(available_hours[i])
    IN  available_hours[best]

\* Mutant: the period without its two end days.
IsInPeriod_Exclusive(date) == date < PRIOD_END /\ date > PRIOD_START

\* _is_in_period: PRIOD_START <= date <= PRIOD_END on parsed dates.
IsInPeriod(date) == date <= PRIOD_END /\ date >= PRIOD_START

\* get_available_date: the first date of the list inside the period, or
\* NoDate (None).  strptime raises on an unparseable entry met before a
\* match: GetAvailableDateRaises.
RECURSIVE FirstInPeriod(_)
FirstInPeriod(ds) ==
    IF ds = <<>> THEN NoDate
    ELSE IF IsInPeriod(Head(ds)) THEN Head(ds)
    ELSE FirstInPeriod(Tail(ds))

RECURSIVE GetAvailableDateRaises(_)
GetAvailableDateRaises(ds) ==
    IF ds = <<>> THEN FALSE
    ELSE IF Head(ds) = NoDate THEN TRUE
    ELSE IF IsInPeriod(Head(ds)) THEN FALSE
    ELSE GetAvailableDateRaises(Tail(ds))

get_available_date(ds) == FirstInPeriod(ds)

\* get_cas_date line 390: the dates of the items whose business_day is truthy.
BusinessDates(items) ==
    LET kept == SelectSeq(items, LAMBDA item : item.business_day = "true")
    IN  [i \in 1..Len(kept) |-> kept[i].date]

\* Mutant: dates[0].
LastOf_First(s) == s[1]

\* get_cas_date line 393: dates[-1].
LastOf(s) == s[Len(s)]

\* get_cas_date lines 390-396: what one read selects from json_data: the
\* last business date, or nothing.
SelectCasDate(json_data) ==
    IF BusinessDates(json_data) = <<>>
    THEN [found |-> FALSE, cas_date |-> NoDate]
    ELSE [found |-> TRUE, cas_date |-> LastOf(BusinessDates(json_data))]

\* Lines 625-628 and 457-466: what one read selects from available_times;
\* nothing (NoTime) from an empty list.
SelectTime(available_times) ==
    IF available_times = <<>> THEN NoTime
    ELSE closest_time_to_desired_time(available_times, DESIRED_TIME)

\* The selections over every listing the environment can deliver.
CasDateReads == {SelectCasDate(l) : l \in CasLists}
TimeReads == {SelectTime(l) : l \in TimeLists}

\* Mutant: a 200 status counts as success.
HasSuccessMarker_OrStatusOk(r) == r.body \cap SUCCESS_PATTERNS # {} \/ r.status = 200

\* Mutant: only the English success phrase is looked for.
HasSuccessMarker_EnglishOnly(r) == "Successfully Scheduled" \in r.body

\* reschedule line 573: any(substring in r.text for substring in SUCCESS_PATTERNS).
HasSuccessMarker(r) == r.body \cap SUCCESS_PATTERNS # {}

\* -------------------------------------------------------------- state
VARIABLES
    pc,          \* position of the single thread of control
    first_loop,  \* start_visa_process: first_loop
    now,         \* time.time(), in seconds since the process started
    t0,          \* start_visa_process: t0
    total_time,  \* start_visa_process: total_time
    req_count,   \* start_visa_process: req_count
    attempts,    \* start_login_process: attempts
    wrong_seen,  \* an attempt of the current login call met the wrong-credentials marker
    signed_in,   \* the remote session: signed in since the last sign-out
    dates_read,  \* outcome of the last primary date read
    dates,       \* start_visa_process: dates
    date,        \* reschedule: date
    time,        \* reschedule: time
    cas_date,    \* reschedule: cas_date
    cas_time,    \* reschedule: cas_time
    reads,       \* reads issued by the slot query in progress (the loop index
                 \* `attempt` of the three retried queries)
    last_read,   \* outcome of the last read of the slot query in progress
    logged,      \* failure entries the slot query in progress wrote to the log
    delays,      \* STEP_TIME sleeps of the slot query in progress
    response,    \* reschedule: r
    posts,       \* reschedule POSTs issued in the current polling cycle
    hist,        \* what the current polling cycle has done, in order
    alert,       \* handle_exception: the spoken failure alert
    queries,     \* primary date reads the site received since the last
                 \* login that succeeded
    call,        \* a function applied on its own: its name and arguments
    result       \* what that application returned

vars == <<pc, first_loop, now, t0, total_time, req_count, attempts, wrong_seen,
          signed_in, dates_read, dates, date, time, cas_date, cas_time, reads,
          last_read, logged, delays, response, posts, hist, alert, queries,
          call, result>>

callVars == <<call, result>>
loopVars == <<first_loop, t0, total_time, req_count>>
loginVars == <<attempts, wrong_seen, queries>>
queryVars == <<dates_read, dates>>
candVars == <<date, time, cas_date, cas_time>>
readVars == <<reads, last_read, logged, delays>>

\* Outcomes of a call to the notification channels (gTTS, audio player,
\* SendGrid, Pushover, personal site): it returns or it raises.
NotifyOutcomes == {"delivered", "raised"}
\* Outcomes of a browser call (DRIVER.get, find_element, execute_script).
DriverOutcomes == {"ok", "raised"}

\* No function is applied on its own while the loop runs.
NoCall == [fn |-> "none"]
Pending == <<"pending">>

\* The locals of start_visa_process and the environment at line 718.
ProgramInit ==
    /\ pc = "top"
    /\ first_loop = TRUE
    /\ now = 0
    /\ t0 = 0
    /\ total_time = 0
    /\ req_count = 0
    /\ attempts = 0
    /\ wrong_seen = FALSE
    /\ signed_in = FALSE
    /\ dates_read = "none"
    /\ dates = <<>>
    /\ date = NoDate
    /\ time = NoTime
    /\ cas_date = NoDate
    /\ cas_time = NoTime
    /\ reads = 0
    /\ last_read = "none"
    /\ logged = 0
    /\ delays = 0
    /\ response = NoResponse
    /\ posts = 0
    /\ hist = <<>>
    /\ alert = "none"
    /\ queries = 0

Init ==
    /\ ProgramInit
    /\ call = NoCall
    /\ result = Pending

\* start_visa_process lines 754-756: the except clause of the cycle.
Raise(h) ==
    /\ pc' = "exception"
    /\ hist' = Append(h, "exception")

\* ------------------------------------------------ start_visa_process
\* Mutant: the request counter survives a re-authentication.
RequestCountAtLogin_Kept(n) == n

\* Line 727: req_count = 0 in the first_loop block.
RequestCountAtLogin(n) == 0

\* Lines 721-728: the first_loop block up to the call of start_login_process.
\* DRIVER is not None here: __main__ calls start_visa_process only then.
StartAuth ==
    /\ pc = "top"
    /\ first_loop
    /\ t0' = now
    /\ total_time' = 0
    /\ req_count' = RequestCountAtLogin(req_count)
    /\ attempts' = 0
    /\ wrong_seen' = FALSE
    /\ pc' = "login"
    /\ UNCHANGED <<first_loop, now, signed_in, queryVars, candVars, readVars,
                   response, posts, hist, alert, queries>>
    /\ UNCHANGED callVars

\* Mutant: the start timestamp is renewed at the top of every cycle.
CycleStart_Renewed(start, t) == t

\* Lines 722-725: t0 = time.time() sits inside `if first_loop`; with
\* first_loop false the cycle keeps its start timestamp.
CycleStart(start, t) == start

\* Line 722 with first_loop false: straight to the cycle.
NextCycle ==
    /\ pc = "top"
    /\ ~first_loop
    /\ t0' = CycleStart(t0, now)
    /\ pc' = "poll"
    /\ UNCHANGED <<first_loop, total_time, req_count, now, loginVars, signed_in,
                   queryVars, candVars, readVars, response, posts, hist, alert>>
    /\ UNCHANGED callVars

\* ----------------------------------------------- start_login_process
\* Mutant: the login loop runs once more than REQUEST_ATTEMPTS.
LoginMayRetry_OffByOne(n) == n <= REQUEST_ATTEMPTS

\* Line 274: while attempts < REQUEST_ATTEMPTS.
LoginMayRetry(n) == n < REQUEST_ATTEMPTS

\* Mutant: the result of start_login_process is ignored and the cycle runs.
AfterLoginFailed_Ignored == "poll"

\* Lines 728-729: `if not start_login_process(): break` leaves the loop
\* and start_visa_process returns.
AfterLoginFailed == "login_failed"

\* One iteration of the while loop, lines 275-322.
\*   "continue":  the continue marker appeared, return True (line 316), which
\*                ends the scope of attempts;
\*   "wrong":     the wrong-credentials marker appeared: _handle_notification
\*                inside the try block, then return False (lines 305-313); an
\*                exception of the notification is caught by line 318;
\*   "transient": any exception of the attempt, caught by line 318.
LoginAttempt ==
    /\ pc = "login"
    /\ LoginMayRetry(attempts)
    /\ \E outcome \in {"continue", "wrong", "transient"} :
        \/ /\ outcome = "continue"
           /\ signed_in' = TRUE
           /\ first_loop' = FALSE
           /\ pc' = "poll"
           /\ hist' = Append(hist, "login")
           /\ attempts' = 0
           /\ wrong_seen' = FALSE
           /\ queries' = 0
        \/ /\ outcome = "wrong"
           /\ attempts' = attempts + 1
           /\ wrong_seen' = TRUE
           /\ \E n \in NotifyOutcomes :
                \/ /\ n = "delivered"
                   /\ pc' = AfterLoginFailed
                   /\ hist' = Append(hist, "EXCEPTION")
                \/ /\ n = "raised"
                   /\ pc' = "login"
                   /\ hist' = Append(hist, "step_sleep")
           /\ UNCHANGED <<signed_in, first_loop, queries>>
        \/ /\ outcome = "transient"
           /\ attempts' = attempts + 1
           /\ pc' = "login"
           /\ hist' = Append(hist, "step_sleep")
           /\ UNCHANGED <<signed_in, first_loop, wrong_seen, queries>>
    /\ UNCHANGED <<now, t0, total_time, req_count, queryVars, candVars,
                   readVars, response, posts, alert>>
    /\ UNCHANGED callVars

\* Line 324 reached with the loop condition false: return False, and
\* start_visa_process breaks at line 729.
LoginExhausted ==
    /\ pc = "login"
    /\ ~LoginMayRetry(attempts)
    /\ pc' = AfterLoginFailed
    /\ UNCHANGED <<loopVars, now, loginVars, signed_in, queryVars, candVars,
                   readVars, response, posts, hist, alert>>
    /\ UNCHANGED callVars

\* --------------------------------------- the polling cycle, lines 732-752
\* Mutant: the ban branch forgets first_loop = True.
FirstLoopAfterBan_Forgotten == FALSE

\* Line 739: first_loop after handle_ban_situation.
FirstLoopAfterBan == TRUE

\* Mutant: the rest branch forgets first_loop = True.
FirstLoopAfterBreak_Forgotten == FALSE

\* Line 749: first_loop after handle_break_time returned True.
FirstLoopAfterBreak == TRUE

\* Lines 732-736: req_count += 1, log_request_status, and
\* get_consulate_appointment_date (lines 596-605): one read, no retry loop;
\* any exception is printed and turned into False.
\*   "raised":    the read raised, dates = False;
\*   "malformed": JSON that is truthy but no list of {"date": str} objects;
\*   "ok":        a list of dates, possibly empty.
QueryDates ==
    /\ pc = "poll"
    /\ req_count' = req_count + 1
    /\ queries' = queries + 1
    /\ posts' = 0
    /\ hist' = <<"query">>
    /\ reads' = 1
    /\ logged' = 0
    /\ delays' = 0
    /\ \E outcome \in {"raised", "malformed", "ok"} :
        /\ dates_read' = outcome
        /\ IF outcome = "ok" THEN dates' \in DateLists ELSE dates' = <<>>
        /\ last_read' = IF outcome = "raised" THEN "raised"
                        ELSE IF outcome = "ok" /\ dates' = <<>> THEN "empty"
                        ELSE "value"
    /\ pc' = "dates"
    /\ UNCHANGED <<first_loop, now, t0, total_time, attempts, wrong_seen,
                   signed_in, candVars, response, alert>>
    /\ UNCHANGED callVars

\* Line 737: `if not dates` is true of False and of the empty list.
NotDates == dates_read = "raised" \/ (dates_read = "ok" /\ dates = <<>>)

\* log_available_dates, line 789: ", ".join(d.get("date") for d in dates)
\* raises on an entry without a date (None) and accepts any string.
LogAvailableDatesMayRaise(ds) == \E i \in DOMAIN ds : ds[i] = NoDate

\* Lines 737-745 after the read: the ban test, log_available_dates,
\* get_available_date and the test `if date`.  The list is not read again
\* after line 743 and is dropped here.
HandleDates ==
    /\ pc = "dates"
    /\ IF NotDates
       THEN /\ pc' = "ban"
            /\ hist' = Append(hist, "no_dates")
            /\ UNCHANGED date
       ELSE \/ /\ \/ dates_read = "malformed"
                   \/ LogAvailableDatesMayRaise(dates)
                   \/ GetAvailableDateRaises(dates)
               /\ Raise(Append(hist, "dates_raised"))
               /\ UNCHANGED date
            \/ /\ dates_read # "malformed"
               /\ ~GetAvailableDateRaises(dates)
               /\ date' = get_available_date(dates)
               /\ pc' = IF date' # NoDate THEN "r_open" ELSE "break_time"
               /\ hist' = Append(hist, IF date' # NoDate THEN "date" ELSE "no_date")
    /\ dates' = <<>>
    /\ reads' = 0
    /\ last_read' = "none"
    /\ UNCHANGED <<logged, delays>>
    /\ UNCHANGED <<loopVars, now, loginVars, signed_in, dates_read, time,
                   cas_date, cas_time, response, posts, alert>>
    /\ UNCHANGED callVars

\* Mutant: the ban branch falls through to the work-limit check.
AfterBanSituation_FallsThrough == "break_time"

\* Line 740: `continue` after handle_ban_situation, back to the loop head.
AfterBanSituation == "top"

\* Mutant: the cooldown sleeps without calling the sign-out link.
SignedInAfterSignOut_Skipped(s) == s

\* Lines 777 and 804: DRIVER.get(SIGN_OUT_LINK) that returned ends the
\* session, whatever it was before.
SignedInAfterSignOut(s) == FALSE

\* handle_ban_situation, lines 773-778, and lines 739-740: log,
\* send_notification("BAN"), DRIVER.get(SIGN_OUT_LINK), sleep, then
\* first_loop = True and continue.  A sign-out that raised may or may not
\* have reached the server.
handle_ban_situation ==
    /\ pc = "ban"
    /\ \E n \in NotifyOutcomes, g \in DriverOutcomes :
        \/ /\ n = "raised"
           /\ Raise(Append(hist, "BAN_raised"))
           /\ UNCHANGED <<signed_in, now, first_loop>>
        \/ /\ n = "delivered"
           /\ g = "raised"
           /\ Raise(hist \o <<"BAN", "sign_out_raised">>)
           /\ signed_in' \in {signed_in, FALSE}
           /\ UNCHANGED <<now, first_loop>>
        \/ /\ n = "delivered"
           /\ g = "ok"
           /\ now + BAN_COOLDOWN_TIME * HOUR <= MaxClock
           /\ signed_in' = SignedInAfterSignOut(signed_in)
           /\ now' = now + BAN_COOLDOWN_TIME * HOUR
           /\ hist' = hist \o <<"BAN", "sign_out", "ban_sleep">>
           /\ first_loop' = FirstLoopAfterBan
           /\ pc' = AfterBanSituation
    /\ UNCHANGED <<t0, total_time, req_count, loginVars, queryVars, candVars,
                   readVars, response, posts, alert>>
    /\ UNCHANGED callVars

\* Mutant: the work limit is reached at the threshold already.
WorkLimitReached_Inclusive(t) == t >= WORK_LIMIT_TIME * HOUR

\* Line 799: total_time > WORK_LIMIT_TIME * HOUR.
WorkLimitReached(t) == t > WORK_LIMIT_TIME * HOUR

\* Lines 747-750: total_time = time.time() - t0 and handle_break_time
\* (lines 795-807): over the limit it notifies REST, signs out, sleeps the
\* rest cooldown and returns True; otherwise it returns False.
handle_break_time ==
    /\ pc = "break_time"
    /\ total_time' = now - t0
    /\ IF WorkLimitReached(total_time')
       THEN \E n \in NotifyOutcomes, g \in DriverOutcomes :
            \/ /\ n = "raised"
               /\ Raise(Append(hist, "REST_raised"))
               /\ UNCHANGED <<signed_in, now, first_loop>>
            \/ /\ n = "delivered"
               /\ g = "raised"
               /\ Raise(hist \o <<"REST", "sign_out_raised">>)
               /\ signed_in' \in {signed_in, FALSE}
               /\ UNCHANGED <<now, first_loop>>
            \/ /\ n = "delivered"
               /\ g = "ok"
               /\ now + WORK_COOLDOWN_TIME * HOUR <= MaxClock
               /\ signed_in' = SignedInAfterSignOut(signed_in)
               /\ now' = now + WORK_COOLDOWN_TIME * HOUR
               /\ hist' = hist \o <<"REST", "sign_out", "rest_sleep">>
               /\ first_loop' = FirstLoopAfterBreak
               /\ pc' = "top"
       ELSE /\ pc' = "retry_wait"
            /\ UNCHANGED <<signed_in, now, first_loop, hist>>
    /\ UNCHANGED <<t0, req_count, loginVars, queryVars, candVars, readVars,
                   response, posts, alert>>
    /\ UNCHANGED callVars

\* handle_retry_wait, lines 812-816: random.randint of the two configured
\* bounds, which config.getfloat delivers as floats: randint accepts or
\* rejects them depending on the interpreter version, so the call returns a
\* wait or raises.
handle_retry_wait ==
    /\ pc = "retry_wait"
    /\ \/ \E w \in RETRY_TIME_L_BOUND..RETRY_TIME_U_BOUND :
            /\ now + w <= MaxClock
            /\ now' = now + w
            /\ hist' = Append(hist, "retry_sleep")
            /\ pc' = "top"
       \/ /\ Raise(Append(hist, "randint_raised"))
          /\ UNCHANGED now
    /\ UNCHANGED <<loopVars, loginVars, signed_in, queryVars, candVars,
                   readVars, response, posts, alert>>
    /\ UNCHANGED callVars

\* Mutant: the except clause goes on with the loop instead of leaving it.
AfterException_Continue == "top"

\* Line 756: `break` after handle_exception.
AfterException == "aborted"

\* handle_exception, lines 821-824, and the break of line 756: log, then the
\* spoken alert, which plays or raises out of start_visa_process.
handle_exception ==
    /\ pc = "exception"
    /\ hist' = Append(hist, "log_exception")
    /\ alert' \in {"played", "raised"}
    /\ pc' = AfterException
    /\ UNCHANGED <<loopVars, now, loginVars, signed_in, queryVars, candVars,
                   readVars, response, posts>>
    /\ UNCHANGED callVars

\* ------------------------------------------------------ slot queries
\* Mutant: range(1, REQUEST_ATTEMPTS + 2), one read too many.
QueryMayRetry_OffByOne(n) == n < REQUEST_ATTEMPTS + 1

\* Mutant: a query that gives up after its first read.
QueryMayRetry_SingleRead(n) == n < 1

\* `for attempt in range(1, REQUEST_ATTEMPTS + 1)` of lines 383, 450, 618.
QueryMayRetry(n) == n < REQUEST_ATTEMPTS

\* get_consulate_appointment_time, one iteration of lines 619-638.  A read
\* that raises is logged and retried after STEP_TIME.  An empty list of
\* available_times makes min() raise ValueError inside the try block
\* (line 628), so it is logged and retried like a failed read.
TimeAttempt ==
    /\ pc = "r_time"
    /\ QueryMayRetry(reads)
    /\ reads' = reads + 1
    /\ \/ /\ last_read' = "raised"
          /\ logged' = logged + 1
          /\ delays' = delays + 1
          /\ UNCHANGED <<time, pc>>
       \/ \E t \in TimeReads :
            IF t = NoTime
            THEN /\ last_read' = "empty"
                 /\ logged' = logged + 1
                 /\ delays' = delays + 1
                 /\ UNCHANGED <<time, pc>>
            ELSE /\ last_read' = "value"
                 /\ time' = t
                 /\ pc' = "r_time_ret"
                 /\ UNCHANGED <<logged, delays>>
    /\ UNCHANGED <<loopVars, now, loginVars, signed_in, queryVars, date,
                   cas_date, cas_time, response, posts, hist, alert>>
    /\ UNCHANGED callVars

\* Line 640: return False after the last iteration.
TimeExhausted ==
    /\ pc = "r_time"
    /\ ~QueryMayRetry(reads)
    /\ time' = NoTime
    /\ pc' = "r_time_ret"
    /\ UNCHANGED <<loopVars, now, loginVars, signed_in, queryVars, date,
                   cas_date, cas_time, readVars, response, posts, hist, alert>>
    /\ UNCHANGED callVars

\* get_cas_date, one iteration of lines 384-407.  A listing without a
\* business-day entry prints "No available CAS dates found." and falls
\* through to the retry; otherwise the last business date is returned.
CasDateAttempt ==
    /\ pc = "r_casdate"
    /\ QueryMayRetry(reads)
    /\ reads' = reads + 1
    /\ \/ /\ last_read' = "raised"
          /\ logged' = logged + 1
          /\ delays' = delays + 1
          /\ UNCHANGED <<cas_date, pc>>
       \/ \E rd \in CasDateReads :
            IF ~rd.found
            THEN /\ last_read' = "empty"
                 /\ delays' = delays + 1
                 /\ UNCHANGED <<cas_date, pc, logged>>
            ELSE /\ last_read' = "value"
                 /\ cas_date' = rd.cas_date
                 /\ pc' = "r_casdate_ret"
                 /\ UNCHANGED <<logged, delays>>
    /\ UNCHANGED <<loopVars, now, loginVars, signed_in, queryVars, date,
                   time, cas_time, response, posts, hist, alert>>
    /\ UNCHANGED callVars

\* Line 409: return False after the last iteration.
CasDateExhausted ==
    /\ pc = "r_casdate"
    /\ ~QueryMayRetry(reads)
    /\ cas_date' = NoDate
    /\ pc' = "r_casdate_ret"
    /\ UNCHANGED <<loopVars, now, loginVars, signed_in, queryVars, date,
                   time, cas_time, readVars, response, posts, hist, alert>>
    /\ UNCHANGED callVars

\* get_cas_time, one iteration of lines 451-474.  Missing or empty
\* available_times prints "No available CAS times found." and falls through
\* to the retry.
CasTimeAttempt ==
    /\ pc = "r_castime"
    /\ QueryMayRetry(reads)
    /\ reads' = reads + 1
    /\ \/ /\ last_read' = "raised"
          /\ logged' = logged + 1
          /\ delays' = delays + 1
          /\ UNCHANGED <<cas_time, pc>>
       \/ \E t \in TimeReads :
            IF t = NoTime
            THEN /\ last_read' = "empty"
                 /\ delays' = delays + 1
                 /\ UNCHANGED <<cas_time, pc, logged>>
            ELSE /\ last_read' = "value"
                 /\ cas_time' = t
                 /\ pc' = "r_castime_ret"
                 /\ UNCHANGED <<logged, delays>>
    /\ UNCHANGED <<loopVars, now, loginVars, signed_in, queryVars, date,
                   time, cas_date, response, posts, hist, alert>>
    /\ UNCHANGED callVars

\* Line 476: return False after the last iteration.
CasTimeExhausted ==
    /\ pc = "r_castime"
    /\ ~QueryMayRetry(reads)
    /\ cas_time' = NoTime
    /\ pc' = "r_castime_ret"
    /\ UNCHANGED <<loopVars, now, loginVars, signed_in, queryVars, date,
                   time, cas_date, readVars, response, posts, hist, alert>>
    /\ UNCHANGED callVars

\* -------------------------------------------------------- reschedule
\* Mutant: the test of line 504 is dropped.
NotCasDate_Unchecked(d) == FALSE

\* Lines 499, 504, 509: `if not time`, `if not cas_date`, `if not cas_time`.
NotTime(t) == t = NoTime
NotCasDate(d) == d = NoDate
NotCasTime(t) == t = NoTime

\* The locals of reschedule while it runs, and when it returns or raises
\* (they go out of scope).
localVars == <<date, time, cas_date, cas_time, reads, last_read, logged, delays,
               response>>

DropLocals ==
    /\ date' = NoDate
    /\ time' = NoTime
    /\ cas_date' = NoDate
    /\ cas_time' = NoTime
    /\ reads' = 0
    /\ last_read' = "none"
    /\ logged' = 0
    /\ delays' = 0
    /\ response' = NoResponse

\* An exception leaves reschedule and reaches line 754.
RaiseFromReschedule(h) ==
    /\ Raise(h)
    /\ DropLocals

\* Mutant: the failure is raised instead of returned.
NotifyAndRaise(h) ==
    /\ Raise(Append(h, "EXCEPTION"))
    /\ DropLocals

\* _handle_notification("EXCEPTION", ...) followed by `return False`: the
\* polling loop goes on with line 747 unless the notification raises.
NotifyAndReturnFalse(h) ==
    /\ \E n \in NotifyOutcomes :
        \/ /\ n = "delivered"
           /\ hist' = Append(h, "EXCEPTION")
           /\ pc' = "break_time"
        \/ /\ n = "raised"
           /\ Raise(Append(h, "EXCEPTION_raised"))
    /\ DropLocals

\* Lines 496-498: DRIVER.get(APPOINTMENT_URL), then the first lookup starts.
OpenAppointment ==
    /\ pc = "r_open"
    /\ \E g \in DriverOutcomes :
        \/ /\ g = "ok"
           /\ pc' = "r_time"
           /\ hist' = hist \o <<"page", "time_lookup">>
           /\ UNCHANGED localVars
        \/ /\ g = "raised"
           /\ RaiseFromReschedule(Append(hist, "page_raised"))
    /\ UNCHANGED <<loopVars, now, loginVars, signed_in, queryVars, posts, alert>>
    /\ UNCHANGED callVars

\* Lines 499-503.  The locals of the lookup that returned are gone.
CheckTime ==
    /\ pc = "r_time_ret"
    /\ IF NotTime(time)
       THEN NotifyAndReturnFalse(Append(hist, "time_failed"))
       ELSE /\ pc' = "r_casdate"
            /\ hist' = Append(hist, "cas_date_lookup")
            /\ reads' = 0
            /\ last_read' = "none"
            /\ logged' = 0
            /\ delays' = 0
            /\ UNCHANGED <<date, time, cas_date, cas_time, response>>
    /\ UNCHANGED <<loopVars, now, loginVars, signed_in, queryVars, posts, alert>>
    /\ UNCHANGED callVars

\* Lines 504-508.
CheckCasDate ==
    /\ pc = "r_casdate_ret"
    /\ IF NotCasDate(cas_date)
       THEN NotifyAndReturnFalse(Append(hist, "cas_date_failed"))
       ELSE /\ pc' = "r_castime"
            /\ hist' = Append(hist, "cas_time_lookup")
            /\ reads' = 0
            /\ last_read' = "none"
            /\ logged' = 0
            /\ delays' = 0
            /\ UNCHANGED <<date, time, cas_date, cas_time, response>>
    /\ UNCHANGED <<loopVars, now, loginVars, signed_in, queryVars, posts, alert>>
    /\ UNCHANGED callVars

\* Lines 509-511.
CheckCasTime ==
    /\ pc = "r_castime_ret"
    /\ IF NotCasTime(cas_time)
       THEN NotifyAndReturnFalse(Append(hist, "cas_time_failed"))
       ELSE /\ pc' = "r_build"
            /\ reads' = 0
            /\ last_read' = "none"
            /\ logged' = 0
            /\ delays' = 0
            /\ UNCHANGED <<hist, date, time, cas_date, cas_time, response>>
    /\ UNCHANGED <<loopVars, now, loginVars, signed_in, queryVars, posts, alert>>
    /\ UNCHANGED callVars

\* Lines 513-549: the headers and the form tokens are read from the browser
\* (execute_script, get_cookie, find_element), then the request is logged.
BuildRequest ==
    /\ pc = "r_build"
    /\ \E g \in DriverOutcomes :
        \/ /\ g = "ok"
           /\ hist' = Append(hist, "log_request")
           /\ pc' = "r_post"
           /\ UNCHANGED localVars
        \/ /\ g = "raised"
           /\ RaiseFromReschedule(Append(hist, "build_raised"))
    /\ UNCHANGED <<loopVars, now, loginVars, signed_in, queryVars, posts, alert>>
    /\ UNCHANGED callVars

\* Line 558: the log entry holds the status code and the text of r.
LogResponse(r) ==
    IF r.status = 200 THEN "log_response_200" ELSE "log_response_500"

\* Mutant: the response is not written to the log.
PostEvents_Unlogged(r) == <<"post">>

\* Lines 552-560: the POST returned r, then print and info_logger of the
\* response.
PostEvents(r) == <<"post", LogResponse(r)>>

\* Lines 552-560: requests.post raises (timeout, connection error) or
\* returns a response, which is logged.
PostReschedule ==
    /\ pc = "r_post"
    /\ posts' = posts + 1
    /\ \/ RaiseFromReschedule(Append(hist, "post_raised"))
       \/ /\ response' \in Responses
          /\ hist' = hist \o PostEvents(response')
          /\ pc' = "r_result"
          /\ UNCHANGED <<date, time, cas_date, cas_time, readVars>>
    /\ UNCHANGED <<loopVars, now, loginVars, signed_in, queryVars, alert>>
    /\ UNCHANGED callVars

\* Mutant: the result of reschedule is ignored and the cycle goes on.
AfterRescheduled_Continue == "break_time"

\* Lines 744-745: `if date and reschedule(date): break` leaves the loop.
AfterRescheduled == "done"

\* Lines 573-586 and the break of line 745.
InterpretResponse ==
    /\ pc = "r_result"
    /\ IF HasSuccessMarker(response)
       THEN /\ \E n \in NotifyOutcomes :
                \/ /\ n = "delivered"
                   /\ hist' = Append(hist, "SUCCESS")
                   /\ pc' = AfterRescheduled
                \/ /\ n = "raised"
                   /\ Raise(Append(hist, "SUCCESS_raised"))
            /\ DropLocals
       ELSE NotifyAndReturnFalse(Append(hist, "rejected"))
    /\ UNCHANGED <<loopVars, now, loginVars, signed_in, queryVars, posts, alert>>
    /\ UNCHANGED callVars

\* ------------------------------------------------------ specification
Next ==
    \/ StartAuth
    \/ NextCycle
    \/ LoginAttempt
    \/ LoginExhausted
    \/ QueryDates
    \/ HandleDates
    \/ handle_ban_situation
    \/ OpenAppointment
    \/ TimeAttempt
    \/ TimeExhausted
    \/ CheckTime
    \/ CasDateAttempt
    \/ CasDateExhausted
    \/ CheckCasDate
    \/ CasTimeAttempt
    \/ CasTimeExhausted
    \/ CheckCasTime
    \/ BuildRequest
    \/ PostReschedule
    \/ InterpretResponse
    \/ handle_break_time
    \/ handle_retry_wait
    \/ handle_exception

Spec == Init /\ [][Next]_vars

\* ------------------------------------------- the functions on their own
\* closest_time_to_desired_time, get_available_date and the selection of
\* get_cas_date applied once to arguments drawn from the values the
\* environment can deliver; the loop does not run.
DesiredTimes == Times \cup {DESIRED_TIME}

Calls ==
    [fn : {"closest_time_to_desired_time"}, available_hours : TimeLists,
     desired_time : DesiredTimes]
    \cup [fn : {"get_available_date"}, dates : DateLists]
    \cup [fn : {"get_cas_date"}, json_data : CasLists]

CallInit ==
    /\ ProgramInit
    /\ call \in Calls
    /\ result = Pending

\* Lines 427-433; min() of an empty list raises ValueError.
ApplyClosestTime ==
    /\ call.fn = "closest_time_to_desired_time"
    /\ result = Pending
    /\ result' = IF call.available_hours = <<>> THEN <<"raised">>
                 ELSE <<"returned",
                        closest_time_to_desired_time(call.available_hours,
                                                     call.desired_time)>>
    /\ UNCHANGED <<pc, loopVars, now, loginVars, signed_in, queryVars, candVars,
                   readVars, response, posts, hist, alert, call>>

\* Lines 658-669.
ApplyGetAvailableDate ==
    /\ call.fn = "get_available_date"
    /\ result = Pending
    /\ result' = IF GetAvailableDateRaises(call.dates) THEN <<"raised">>
                 ELSE <<"returned", get_available_date(call.dates)>>
    /\ UNCHANGED <<pc, loopVars, now, loginVars, signed_in, queryVars, candVars,
                   readVars, response, posts, hist, alert, call>>

\* Lines 389-396: what one read of get_cas_date selects from json_data.
ApplyGetCasDate ==
    /\ call.fn = "get_cas_date"
    /\ result = Pending
    /\ result' = IF ~SelectCasDate(call.json_data).found THEN <<"no_date">>
                 ELSE <<"returned", SelectCasDate(call.json_data).cas_date>>
    /\ UNCHANGED <<pc, loopVars, now, loginVars, signed_in, queryVars, candVars,
                   readVars, response, posts, hist, alert, call>>

CallNext ==
    \/ ApplyClosestTime
    \/ ApplyGetAvailableDate
    \/ ApplyGetCasDate

CallSpec == CallInit /\ [][CallNext]_vars

\* ============================================================ claims
Last(h) == h[Len(h)]
Has(h, e) == \E i \in DOMAIN h : h[i] = e
\* The cycle's history without the STEP_TIME sleeps of the login loop.
Events(h) == SelectSeq(h, LAMBDA e : e # "step_sleep")

\* C1: a reschedule POST is issued only with a complete candidate (primary
\* date, primary time, secondary date, secondary time all non-empty) whose
\* primary date lies in [PRIOD_START, PRIOD_END].
C1_PostOnlyCompleteCandidateInWindow ==
    [][posts' = posts + 1 =>
          /\ date # NoDate
          /\ time # NoTime
          /\ cas_date # NoDate
          /\ cas_time # NoTime
          /\ PRIOD_START <= date
          /\ date <= PRIOD_END]_vars

\* A POST was sent for the last day of the window.
C1_Witness ==
    /\ pc = "r_result"
    /\ posts = 1
    /\ date = PRIOD_END
    /\ time # NoTime /\ cas_date # NoDate /\ cas_time # NoTime

\* C2: every slot read and every reschedule POST, also after a ban or rest
\* cooldown, is issued while the session is signed in: a login succeeded
\* since the last sign-out.
C2_RequestsOnlyWhileSignedIn ==
    [][(reads' = reads + 1 \/ posts' = posts + 1) => signed_in]_vars

\* A primary date read issued after a cooldown and the re-login that
\* follows it.
C2_Witness ==
    /\ pc = "dates"
    /\ signed_in
    /\ now > 0
    /\ req_count = 1

\* C3: a cycle whose primary date read returned an empty list attempts no
\* linking lookup and no submission; it sends the BAN notification, signs
\* out and sleeps BAN_COOLDOWN_TIME hours, and the next read comes only
\* after a fresh login with the work-cycle counters reset (unless an
\* exception of the ban handling ends the loop).
EmptyDatesCycle ==
    /\ dates_read = "ok"
    /\ Len(hist) >= 2
    /\ hist[2] = "no_dates"

BanCycleStates ==
    [] (EmptyDatesCycle =>
          /\ posts = 0
          /\ pc \in {"ban", "top", "login", "login_failed", "poll",
                     "exception", "aborted"}
          /\ \A i \in DOMAIN hist :
                hist[i] \in {"query", "no_dates", "BAN", "BAN_raised", "sign_out",
                             "sign_out_raised", "ban_sleep", "step_sleep", "login",
                             "EXCEPTION", "exception", "log_exception"}
          /\ pc = "top" => first_loop
          /\ pc \in {"top", "login", "login_failed"} =>
                /\ ~signed_in
                /\ SubSeq(hist, 1, 5) =
                      <<"query", "no_dates", "BAN", "sign_out", "ban_sleep">>
          /\ pc = "poll" =>
                /\ Events(hist) =
                      <<"query", "no_dates", "BAN", "sign_out", "ban_sleep", "login">>
                /\ signed_in
                /\ req_count = 0
                /\ total_time = 0
                /\ t0 = now)

BanCycleSleep ==
    [][pc = "ban" /\ pc' = "top" =>
          /\ now' = now + BAN_COOLDOWN_TIME * HOUR
          /\ first_loop'
          /\ ~signed_in']_vars

C3_BanCycle == BanCycleStates /\ BanCycleSleep

\* After an empty date list: cooldown done, logged in again, next read due.
C3_Witness ==
    /\ EmptyDatesCycle
    /\ pc = "poll"
    /\ Has(hist, "ban_sleep")

\* C4: a response with a success marker (which is reached only with an
\* in-window date and three non-empty lookups) ends the loop in that cycle:
\* the SUCCESS notification is emitted and the loop is Done, with no sleep,
\* login or request after it, and nothing runs after Done.  (An exception of
\* the notification channel ends the loop through handle_exception.)
SuccessStep ==
    [][(pc = "r_result" /\ response.body \cap SUCCESS_PATTERNS # {}) =>
          \/ /\ pc' = "done"
             /\ hist' = Append(hist, "SUCCESS")
          \/ /\ pc' = "exception"
             /\ hist' = hist \o <<"SUCCESS_raised", "exception">>]_vars

DoneIsFinal ==
    [][pc = "done" => FALSE]_vars

DoneState ==
    [] (pc = "done" =>
          /\ Last(hist) = "SUCCESS"
          /\ hist[Len(hist) - 2] = "post"
          /\ posts = 1
          /\ ~Has(hist, "retry_sleep")
          /\ ~Has(hist, "rest_sleep")
          /\ ~Has(hist, "ban_sleep")
          /\ ~Has(hist, "login"))

C4_SuccessEndsLoop == SuccessStep /\ DoneIsFinal /\ DoneState

C4_Witness ==
    /\ pc = "done"
    /\ Last(hist) = "SUCCESS"

\* C5 as claimed: the loop never takes the exception path (and so never
\* moves to Aborted) because building the request from the page's form
\* tokens or sending the POST failed.
C5_Claimed ==
    \A i \in DOMAIN hist :
        hist[i] = "exception" => hist[i - 1] \notin {"build_raised", "post_raised"}

\* C5 as amended: a lookup that returned no value and a response without
\* success marker are returned as False once the failure notification has
\* been delivered, and the loop goes on to the work-limit check; the loop is
\* never aborted by such a failure value, only by an exception, and an
\* exception while loading the page, building the request, sending the POST
\* or notifying does abort it.
FailureValues == {"time_failed", "cas_date_failed", "cas_time_failed", "rejected"}
RaisedInReschedule ==
    {"page_raised", "build_raised", "post_raised", "EXCEPTION_raised",
     "SUCCESS_raised"}

C5_FailureValueIsNotFatal ==
    /\ \A i \in DOMAIN hist :
          /\ hist[i] \in FailureValues =>
                /\ i < Len(hist)
                /\ hist[i + 1] \in {"EXCEPTION", "EXCEPTION_raised"}
          /\ (hist[i] = "EXCEPTION" /\ i = Len(hist) /\ i > 1
                /\ hist[i - 1] \in FailureValues) =>
                pc \in {"break_time", "retry_wait"}
          /\ hist[i] \in RaisedInReschedule =>
                /\ pc \in {"exception", "aborted"}
                /\ hist[i + 1] = "exception"
    /\ pc \in {"exception", "aborted"} =>
          \E i \in DOMAIN hist :
              /\ hist[i] = "exception"
              /\ i > 1
              /\ i >= Len(hist) - 1
              /\ hist[i - 1] \notin FailureValues \cup {"EXCEPTION"}

C5_Witness ==
    /\ pc = "break_time"
    /\ Last(hist) = "EXCEPTION"
    /\ Has(hist, "rejected")

\* C6 as claimed: whenever one of the three dependent lookups yields no
\* value, reschedule emits a notification and returns False to the polling
\* loop without raising, and no POST is sent in that cycle.
LookupFailures == {"time_failed", "cas_date_failed", "cas_time_failed"}

C6_Claimed ==
    \A i \in DOMAIN hist :
        hist[i] \in LookupFailures =>
            /\ posts = 0
            /\ i < Len(hist)
            /\ hist[i + 1] = "EXCEPTION"
            /\ ~Has(hist, "EXCEPTION_raised")

\* The part of C6 the code keeps: no POST in a cycle with a failed lookup.
C6_Witness ==
    /\ pc = "break_time"
    /\ Has(hist, "cas_date_failed")
    /\ posts = 0

\* C7 as claimed: every slot query, the primary date listing included,
\* reports failure to its caller only after REQUEST_ATTEMPTS reads.
C7_Claimed ==
    /\ (pc = "dates" /\ last_read = "raised") => reads = REQUEST_ATTEMPTS
    /\ (pc = "r_time_ret" /\ last_read # "value") => reads = REQUEST_ATTEMPTS
    /\ (pc = "r_casdate_ret" /\ last_read # "value") => reads = REQUEST_ATTEMPTS
    /\ (pc = "r_castime_ret" /\ last_read # "value") => reads = REQUEST_ATTEMPTS

\* C7 as amended: the three dependent lookups repeat the read, sleeping
\* STEP_TIME after every attempt that gave no value and logging every read
\* that raised, until a read gives a value or REQUEST_ATTEMPTS reads were
\* made, and return False only then; no query issues more than
\* REQUEST_ATTEMPTS reads.  The primary date listing issues one read and
\* reports its failure at once, without retry, delay or log entry.
LookupPcs == {"r_time", "r_casdate", "r_castime"}
LookupRetPcs == {"r_time_ret", "r_casdate_ret", "r_castime_ret"}

C7_BoundedRetries ==
    /\ reads <= REQUEST_ATTEMPTS
    /\ pc = "dates" => (reads = 1 /\ delays = 0 /\ logged = 0)
    /\ pc \in LookupPcs =>
          /\ last_read # "value"
          /\ delays = reads
          /\ logged <= reads
          /\ last_read = "raised" => logged >= 1
    /\ pc \in LookupRetPcs =>
          IF last_read = "value"
          THEN delays = reads - 1
          ELSE /\ reads = REQUEST_ATTEMPTS
               /\ delays = REQUEST_ATTEMPTS
    /\ (pc = "r_time_ret" /\ last_read # "value") => time = NoTime
    /\ (pc = "r_casdate_ret" /\ last_read # "value") => cas_date = NoDate
    /\ (pc = "r_castime_ret" /\ last_read # "value") => cas_time = NoTime

C7_Witness ==
    /\ pc = "r_time_ret"
    /\ last_read = "raised"
    /\ reads = REQUEST_ATTEMPTS
    /\ logged = REQUEST_ATTEMPTS
    /\ time = NoTime

\* C8 as claimed: in every slot query a read that succeeds with an empty
\* result is followed by no further read of that call.
C8_Claimed ==
    [][last_read = "empty" => reads' # reads + 1]_vars

\* C8 as amended: only the primary date listing returns an empty result to
\* its caller after that single read; a dependent lookup retries after an
\* empty result as after a failed read and returns (False) after an empty
\* read only when it was read number REQUEST_ATTEMPTS.
C8_EmptyResult ==
    /\ (pc = "dates" /\ last_read = "empty") =>
          (reads = 1 /\ dates = <<>> /\ dates_read = "ok")
    /\ (pc \in LookupPcs /\ last_read = "empty") => delays = reads
    /\ (pc \in LookupRetPcs /\ last_read = "empty") =>
          /\ reads = REQUEST_ATTEMPTS
          /\ (pc = "r_time_ret" => time = NoTime)
          /\ (pc = "r_casdate_ret" => cas_date = NoDate)
          /\ (pc = "r_castime_ret" => cas_time = NoTime)

C8_Witness ==
    /\ pc = "r_casdate_ret"
    /\ last_read = "empty"
    /\ reads = REQUEST_ATTEMPTS
    /\ logged = 0

\* C9 as claimed: once an attempt of a login call has met the
\* wrong-credentials marker, the call makes no further attempt: its only
\* step is to return failure.
C9_Claimed ==
    [][(pc = "login" /\ wrong_seen) =>
          (pc' = "login_failed" /\ attempts' = attempts)]_vars

\* The part of C9 the code keeps: with the notification delivered, the call
\* returns failure at the attempt that met the marker.
C9_Witness ==
    /\ pc = "login_failed"
    /\ wrong_seen
    /\ attempts = 1
    /\ Last(hist) = "EXCEPTION"

\* C10: a login call makes at most REQUEST_ATTEMPTS attempts; every attempt
\* either returns or is followed by a STEP_TIME delay and counted, the
\* attempt that meets the continue marker returns success at once, and with
\* REQUEST_ATTEMPTS attempts used the call can only return failure: the
\* call ends within REQUEST_ATTEMPTS + 1 steps.
LoginBounded ==
    [] (/\ attempts \in 0..REQUEST_ATTEMPTS
        /\ (pc = "login_failed" /\ ~wrong_seen) => attempts = REQUEST_ATTEMPTS)

LoginProgress ==
    [][pc = "login" =>
          \/ /\ pc' = "login"
             /\ attempts < REQUEST_ATTEMPTS
             /\ attempts' = attempts + 1
             /\ hist' = Append(hist, "step_sleep")
             /\ ~signed_in'
          \/ /\ pc' = "poll"
             /\ attempts < REQUEST_ATTEMPTS
             /\ signed_in'
             /\ ~first_loop'
          \/ /\ pc' = "login_failed"
             /\ ~signed_in']_vars

C10_LoginTerminates == LoginBounded /\ LoginProgress

C10_Witness ==
    /\ pc = "login_failed"
    /\ attempts = REQUEST_ATTEMPTS
    /\ ~wrong_seen

\* C11: a cycle in which no in-window date was selected, or whose
\* reschedule attempt returned False, goes to the work-limit check, which
\* computes the elapsed time now - t0 and takes one of two branches.  Over
\* WORK_LIMIT_TIME hours: REST notification, sign-out, sleep of
\* WORK_COOLDOWN_TIME hours, and the loop authenticates again with t0,
\* total_time and req_count reset.  Otherwise: one sleep of
\* RETRY_TIME_L_BOUND..RETRY_TIME_U_BOUND seconds and the next cycle runs
\* with the same session, t0 and req_count.  (An exception raised in either
\* branch ends the loop through handle_exception.)
NoCandidateGoesToWorkLimitCheck ==
    [][(pc = "dates" /\ pc' \notin {"ban", "exception"} /\ date' = NoDate) =>
          /\ pc' = "break_time"
          /\ hist' = Append(hist, "no_date")]_vars

WorkLimitBranches ==
    [][pc = "break_time" =>
          /\ total_time' = now - t0
          /\ IF now - t0 > WORK_LIMIT_TIME * HOUR
             THEN \/ /\ pc' = "top"
                     /\ first_loop'
                     /\ ~signed_in'
                     /\ now' = now + WORK_COOLDOWN_TIME * HOUR
                     /\ hist' = hist \o <<"REST", "sign_out", "rest_sleep">>
                  \/ pc' = "exception"
             ELSE /\ pc' = "retry_wait"
                  /\ hist' = hist
                  /\ UNCHANGED <<signed_in, first_loop, now>>
          /\ UNCHANGED <<t0, req_count>>]_vars

RetryWaitBranch ==
    [][pc = "retry_wait" =>
          \/ /\ pc' = "top"
             /\ ~first_loop'
             /\ now' - now \in RETRY_TIME_L_BOUND..RETRY_TIME_U_BOUND
             /\ hist' = Append(hist, "retry_sleep")
             /\ UNCHANGED <<signed_in, t0, total_time, req_count>>
          \/ pc' = "exception"]_vars

ReauthenticationResets ==
    [][(pc = "top" /\ first_loop) =>
          /\ pc' = "login"
          /\ t0' = now
          /\ total_time' = 0
          /\ req_count' = 0]_vars

SameSessionAfterRetryWait ==
    [] ((pc = "top" /\ Len(hist) > 0 /\ Last(hist) = "retry_sleep") =>
           (signed_in /\ ~first_loop /\ req_count >= 1))

C11_WorkLimitOrRetryWait ==
    /\ NoCandidateGoesToWorkLimitCheck
    /\ WorkLimitBranches
    /\ RetryWaitBranch
    /\ ReauthenticationResets
    /\ SameSessionAfterRetryWait

\* A rest cooldown was taken after a failed reschedule attempt and the loop
\* is about to authenticate again.
C11_Witness ==
    /\ pc = "top"
    /\ first_loop
    /\ Len(hist) > 3
    /\ Last(hist) = "rest_sleep"
    /\ Has(hist, "EXCEPTION")
    /\ total_time > WORK_LIMIT_TIME * HOUR

\* C12: from one step of the loop to the next, total_time and req_count
\* never decrease and t0 never changes, except in the first_loop block that
\* precedes a login, which sets total_time and req_count to zero and t0 to
\* the current time; a retry wait in particular leaves t0 as it is.
CountersResetOnlyAtAuthentication ==
    [][(total_time' < total_time \/ req_count' < req_count \/ t0' # t0) =>
          /\ pc = "top"
          /\ first_loop
          /\ pc' = "login"
          /\ total_time' = 0
          /\ req_count' = 0
          /\ t0' = now]_vars

CountersGrowWithinWorkCycle ==
    [][/\ pc = "poll" => req_count' = req_count + 1
       /\ pc = "break_time" => total_time' >= total_time
       /\ pc = "retry_wait" => t0' = t0]_vars

ElapsedWithinClock ==
    [] (t0 <= now /\ total_time <= now - t0 /\ total_time >= 0)

C12_WorkCycleCounters ==
    /\ CountersResetOnlyAtAuthentication
    /\ CountersGrowWithinWorkCycle
    /\ ElapsedWithinClock

\* Third request of one work cycle, after two retry waits.
C12_Witness ==
    /\ pc = "dates"
    /\ req_count = 3
    /\ total_time > 0
    /\ t0 = 0
    /\ now >= 2 * RETRY_TIME_L_BOUND

\* C13: an exception raised by any step of a polling cycle (handling of the
\* date list, ban handling, the linking lookups' notifications, page load,
\* request building, POST, work-limit handling, retry wait) reaches the
\* except clause; handle_exception logs it and emits the spoken failure
\* alert, the loop is left, and nothing happens afterwards: no login, read,
\* POST or sleep.
RaisedInCycle ==
    {"dates_raised", "BAN_raised", "sign_out_raised", "REST_raised",
     "randint_raised", "page_raised", "build_raised", "post_raised",
     "EXCEPTION_raised", "SUCCESS_raised"}

ExceptionReachesHandler ==
    [] (\A i \in DOMAIN hist :
          hist[i] \in RaisedInCycle =>
              /\ i < Len(hist)
              /\ hist[i + 1] = "exception"
              /\ pc \in {"exception", "aborted"})

HandlerLogsAlertsAndLeaves ==
    [][pc = "exception" =>
          /\ pc' = "aborted"
          /\ hist' = Append(hist, "log_exception")
          /\ alert = "none"
          /\ alert' # "none"
          /\ UNCHANGED <<now, signed_in, first_loop, req_count, reads, posts>>]_vars

AbortedIsFinal ==
    [][pc = "aborted" => FALSE]_vars

AbortedOnlyByException ==
    [] (pc = "aborted" =>
          /\ Len(hist) >= 3
          /\ Last(hist) = "log_exception"
          /\ hist[Len(hist) - 1] = "exception"
          /\ hist[Len(hist) - 2] \in RaisedInCycle
          /\ alert # "none")

C13_ExceptionAborts ==
    /\ ExceptionReachesHandler
    /\ HandlerLogsAlertsAndLeaves
    /\ AbortedIsFinal
    /\ AbortedOnlyByException

\* Aborted by an exception of the retry wait.
C13_Witness ==
    /\ pc = "aborted"
    /\ Has(hist, "randint_raised")
    /\ alert = "played"

\* C14 as claimed: every terminal outcome has called the notification sink
\* (send_notification) before the loop ends: a login call that returns
\* failure ends with a notification, and so does the handling of a fatal
\* exception.
SinkCalls == {"SUCCESS", "EXCEPTION", "BAN", "REST"}

C14_Claimed ==
    /\ pc = "login_failed" => (Len(hist) > 0 /\ Last(hist) \in SinkCalls)
    /\ pc = "aborted" =>
          \E i \in DOMAIN hist :
              /\ hist[i] \in SinkCalls
              /\ \E j \in 1..(i - 1) : hist[j] = "exception"

\* The part of C14 the code keeps: a lookup that ran out of retries is
\* logged and notified before reschedule returns.
C14_Witness ==
    /\ pc = "break_time"
    /\ Len(hist) > 2
    /\ Last(hist) = "EXCEPTION"
    /\ hist[Len(hist) - 1] = "cas_time_failed"

\* C15: for a non-empty list of HH:MM candidates and any desired time,
\* closest_time_to_desired_time returns a candidate of the list whose
\* distance in minutes to the desired time is minimal, and of the
\* candidates at that distance the one that comes first in the list.
Minutes(t) == t[1] * 60 + t[2]
Distance(t, d) ==
    IF Minutes(t) >= Minutes(d) THEN Minutes(t) - Minutes(d)
    ELSE Minutes(d) - Minutes(t)

C15_ClosestTimeFirstMinimal ==
    (call.fn = "closest_time_to_desired_time" /\ result # Pending) =>
        LET hs == call.available_hours
            d == call.desired_time
        IN IF hs = <<>> THEN result = <<"raised">>
           ELSE /\ result[1] = "returned"
                /\ \E i \in 1..Len(hs) :
                      /\ hs[i] = result[2]
                      /\ \A j \in 1..Len(hs) :
                            /\ Distance(hs[i], d) <= Distance(hs[j], d)
                            /\ Distance(hs[j], d) = Distance(hs[i], d) => i <= j
                               \/ hs[j] = hs[i]

\* Two candidates at the same distance on both sides of the desired time:
\* the one listed first is returned, although it is the later time.
C15_Witness ==
    /\ call.fn = "closest_time_to_desired_time"
    /\ call.available_hours = <<<<10, 30>>, <<9, 30>>>>
    /\ call.desired_time = <<10, 0>>
    /\ result = <<"returned", <<10, 30>>>>

\* C16: for a list of dates, get_available_date returns the first entry, in
\* list order, with PRIOD_START <= d <= PRIOD_END (both end days included),
\* whether or not a later entry is an earlier day, and returns None exactly
\* when no entry lies in the period.
InWindow(d) == PRIOD_START <= d /\ d <= PRIOD_END

C16_FirstInWindowDate ==
    (/\ call.fn = "get_available_date"
     /\ result # Pending
     /\ \A i \in DOMAIN call.dates : call.dates[i] \in Dates) =>
        LET ds == call.dates
        IN /\ result[1] = "returned"
           /\ IF \E i \in DOMAIN ds : InWindow(ds[i])
              THEN \E i \in DOMAIN ds :
                      /\ InWindow(ds[i])
                      /\ \A j \in 1..(i - 1) : ~InWindow(ds[j])
                      /\ result[2] = ds[i]
              ELSE result[2] = NoDate

\* The last day of the period listed before its first day: the last day is
\* returned.
C16_Witness ==
    /\ call.fn = "get_available_date"
    /\ call.dates = <<PRIOD_END, PRIOD_START>>
    /\ result = <<"returned", PRIOD_END>>

\* C18: from the secondary date listing get_cas_date takes the date of the
\* last entry, in list order, whose business_day flag is true; an entry
\* whose flag is false or missing is never taken, and a listing without a
\* business-day entry yields no date.
C18_LastBusinessDay ==
    (call.fn = "get_cas_date" /\ result # Pending) =>
        LET items == call.json_data
            IsBusinessDay(i) == items[i].business_day = "true"
        IN IF \E i \in DOMAIN items : IsBusinessDay(i)
           THEN /\ result[1] = "returned"
                /\ \E i \in DOMAIN items :
                      /\ IsBusinessDay(i)
                      /\ \A j \in (i + 1)..Len(items) : ~IsBusinessDay(j)
                      /\ result[2] = items[i].date
           ELSE result = <<"no_date">>

\* Two business days listed, the later day first: the entry listed last is
\* taken.
C18_Witness ==
    /\ call.fn = "get_cas_date"
    /\ Len(call.json_data) = 2
    /\ call.json_data[1].business_day = "true"
    /\ call.json_data[2].business_day = "true"
    /\ call.json_data[1].date = 2
    /\ call.json_data[2].date = 1
    /\ result = <<"returned", 1>>

\* C17: reschedule returns True exactly when the response text holds one of
\* SUCCESS_PATTERNS; the status code plays no part: a response without a
\* marker, whatever its status, gets the failure notification and False.
\* (If the notification raises, the call returns nothing: the exception
\* leaves it.)
ResponseLogs == {"log_response_200", "log_response_500"}

C17_SuccessIffMarker ==
    [][pc = "r_result" =>
          IF \E m \in SUCCESS_PATTERNS : m \in response.body
          THEN \/ /\ pc' = "done"
                  /\ hist' = Append(hist, "SUCCESS")
               \/ /\ pc' = "exception"
                  /\ hist' = hist \o <<"SUCCESS_raised", "exception">>
          ELSE \/ /\ pc' = "break_time"
                  /\ hist' = hist \o <<"rejected", "EXCEPTION">>
               \/ /\ pc' = "exception"
                  /\ hist' = hist \o <<"rejected", "EXCEPTION_raised", "exception">>]_vars

\* A response with status 200 and no marker was answered with the failure
\* notification and False.
C17_Witness ==
    /\ pc = "break_time"
    /\ Len(hist) > 3
    /\ SubSeq(hist, Len(hist) - 2, Len(hist)) =
          <<"log_response_200", "rejected", "EXCEPTION">>

\* C20: in a submission the request is written to the log before the POST
\* is sent, and the response (status and text) is written to the log before
\* it is scanned for SUCCESS_PATTERNS and before the success or failure
\* notification: every interpreted outcome has its logged response.
C20_LoggedBeforeInterpreted ==
    \A i \in DOMAIN hist :
        /\ hist[i] \in {"post", "post_raised"} =>
              /\ i > 1
              /\ hist[i - 1] = "log_request"
        /\ hist[i] \in {"SUCCESS", "SUCCESS_raised", "rejected"} =>
              /\ i > 3
              /\ hist[i - 1] \in ResponseLogs
              /\ hist[i - 2] = "post"
              /\ hist[i - 3] = "log_request"
        /\ (hist[i] \in ResponseLogs /\ posts = 1 /\ pc # "r_result") =>
              /\ i < Len(hist)
              /\ hist[i + 1] \in {"SUCCESS", "SUCCESS_raised", "rejected"}

\* A response with status 500 that carried a marker: logged, then
\* interpreted as success.
C20_Witness ==
    /\ pc = "done"
    /\ Len(hist) > 3
    /\ SubSeq(hist, Len(hist) - 3, Len(hist)) =
          <<"log_request", "post", "log_response_500", "SUCCESS">>

\* C19 as claimed: the ban handling (BAN notification, sign-out, ban
\* cooldown sleep) is entered only after a primary date read that returned
\* an empty list, never after a read that failed.
C19_Claimed ==
    (pc = "ban" \/ Has(hist, "BAN") \/ Has(hist, "BAN_raised")) =>
        dates_read # "raised"

\* The part of C19 the code keeps: a read that returned an empty list leads
\* to the ban handling.
C19_Witness ==
    /\ pc = "ban"
    /\ dates_read = "ok"
    /\ hist = <<"query", "no_dates">>
    /\ req_count = 2

\* The cooldown sleeps of handle_ban_situation and handle_break_time.
CooldownSleeps == {"ban_sleep", "rest_sleep"}

\* C21: every entry into the login other than the first one comes after a
\* sign-out of the previous session followed by the ban or rest cooldown
\* sleep; no login starts or runs while a session the loop obtained is
\* signed in, and a session is obtained only by the login, when none is
\* active.
C21_SignOutBeforeReauthentication ==
    /\ [][(pc # "login" /\ pc' = "login") =>
            /\ ~signed_in
            /\ hist # <<>> =>
                  /\ Len(hist) > 1
                  /\ Last(hist) \in CooldownSleeps
                  /\ hist[Len(hist) - 1] = "sign_out"]_vars
    /\ [](pc = "login" => ~signed_in)
    /\ [][(signed_in' /\ ~signed_in) =>
            (pc = "login" /\ pc' = "poll")]_vars
    /\ [][(pc \in {"ban", "break_time"} /\ pc' = "top" /\ first_loop') =>
            ~signed_in']_vars

\* A second login in progress after the rest cooldown signed the first
\* session out.
C21_Witness ==
    /\ pc = "login"
    /\ ~signed_in
    /\ Has(hist, "sign_out")
    /\ Last(hist) = "step_sleep"
    /\ Has(hist, "rest_sleep")

\* The sleeps that end a polling cycle: lines 778, 805 and 816.
CycleSleeps == {"ban_sleep", "rest_sleep", "retry_sleep"}

SleepsOf(h) == {i \in DOMAIN h : h[i] \in CycleSleeps}

\* C22: a polling cycle that returns to the loop head has slept exactly
\* once, as its last step, by the ban cooldown, the rest cooldown or the
\* retry wait, and the clock has advanced; a primary date query that follows
\* another one finds exactly one such sleep between them; a cycle whose read
\* came back empty performs neither the work-limit check nor the retry wait.
C22_OneSleepPerCycle ==
    /\ [](Cardinality(SleepsOf(hist)) <= 1)
    /\ []((pc = "top" /\ Has(hist, "query")) =>
            /\ Cardinality(SleepsOf(hist)) = 1
            /\ Last(hist) \in CycleSleeps)
    /\ [][(pc # "top" /\ pc' = "top") =>
            /\ pc \in {"ban", "break_time", "retry_wait"}
            /\ now' > now
            /\ hist[1] = "query"
            /\ SleepsOf(hist) = {}
            /\ Last(hist') \in CycleSleeps]_vars
    /\ [][(pc = "poll" /\ pc' = "dates" /\ Has(hist, "query")) =>
            \E i \in SleepsOf(hist) :
                \A j \in DOMAIN hist : hist[j] = "query" => j < i]_vars
    /\ [](Has(hist, "no_dates") =>
            /\ pc \notin {"break_time", "retry_wait"}
            /\ \A e \in {"REST", "REST_raised", "rest_sleep", "retry_sleep",
                          "randint_raised"} : ~Has(hist, e))
    /\ [][pc = "ban" => total_time' = total_time]_vars

\* A third query about to be issued after a retry wait, the clock two waits
\* on.
C22_Witness ==
    /\ pc = "poll"
    /\ req_count = 2
    /\ Last(hist) = "retry_sleep"
    /\ Cardinality(SleepsOf(hist)) = 1
    /\ now >= 2 * RETRY_TIME_L_BOUND

\* C23: a login that fails, by the wrong-credentials marker or by using up
\* its attempts, at start-up or after a cooldown, is the last thing the
\* process does: the login is left either signed in, into the cycle, or
\* failed, and from the failed login no step follows (no query, no POST, no
\* sign-out, no login).
C23_FailedLoginEndsLoop ==
    /\ [][(pc = "login" /\ pc' # "login") =>
            \/ /\ pc' = "poll"
               /\ signed_in'
               /\ Last(hist') = "login"
            \/ /\ pc' = "login_failed"
               /\ ~signed_in'
               /\ wrong_seen' \/ attempts' = REQUEST_ATTEMPTS
               /\ <<reads, posts, req_count>>' = <<reads, posts, req_count>>
               /\ ~Has(hist', "login")]_vars
    /\ [][pc = "login_failed" => FALSE]_vars
    /\ [](pc = "poll" => signed_in)

\* The login after a ban cooldown used up its attempts without ever seeing
\* the wrong-credentials marker.
C23_Witness ==
    /\ pc = "login_failed"
    /\ Has(hist, "ban_sleep")
    /\ attempts = REQUEST_ATTEMPTS
    /\ ~wrong_seen
    /\ ~signed_in

\* The steps that issue no request to the appointment site: no read, no
\* POST, no login attempt, no sign-out, no new cycle.
NoRemoteRequest ==
    /\ <<reads, posts, req_count, attempts, signed_in>>' =
          <<reads, posts, req_count, attempts, signed_in>>
    /\ pc' \in {"done", "exception", "aborted"}

\* A response carrying a success marker has been received in this cycle.
AnsweredWithMarker ==
    \/ pc = "r_result" /\ HasSuccessMarker(response)
    \/ Has(hist, "SUCCESS")
    \/ Has(hist, "SUCCESS_raised")

\* C24: a polling cycle sends at most one reschedule POST; from the moment
\* a POST is answered with a success marker no step issues a request (read,
\* POST, sign-out, login); and a cycle that sent a POST is followed by
\* another cycle, hence possibly by another POST, only when that POST was
\* answered without a marker.
C24_AtMostOnePostPerCycle ==
    /\ [](posts <= 1)
    /\ [](Cardinality({i \in DOMAIN hist :
                          hist[i] \in {"post", "post_raised"}}) = posts)
    /\ [][posts' # posts =>
            \/ posts' = 0 /\ pc = "poll"
            \/ posts' = 1 /\ posts = 0 /\ pc = "r_post"]_vars
    /\ [][AnsweredWithMarker => NoRemoteRequest]_vars
    /\ []((posts = 1 /\ pc \in {"break_time", "retry_wait", "top", "login",
                                 "login_failed", "poll"}) =>
            (Has(hist, "rejected") /\ ~AnsweredWithMarker))

\* The POST of the second cycle was answered with a marker and the loop
\* was left.
C24_Witness ==
    /\ pc = "done"
    /\ posts = 1
    /\ req_count = 2
    /\ Has(hist, "post")
    /\ Last(hist) = "SUCCESS"

\* C25: when a primary date query is issued, req_count equals the number
\* of primary date queries issued since the last login that succeeded, this
\* one included; req_count changes only by the reset to zero on the way into
\* a login and by the single increment that precedes the query of a cycle.
C25_RequestCounter ==
    /\ [][(pc = "poll" /\ pc' = "dates") =>
            /\ req_count' = req_count + 1
            /\ queries' = queries + 1
            /\ req_count' = queries']_vars
    /\ [](pc = "dates" => (req_count = queries /\ req_count >= 1))
    /\ [][req_count' # req_count =>
            \/ pc = "top" /\ pc' = "login" /\ req_count' = 0
            \/ pc = "poll" /\ pc' = "dates"]_vars
    /\ [][(signed_in' /\ ~signed_in) =>
            (req_count' = 0 /\ queries' = 0)]_vars

\* The first query after a re-authentication: the counter is back at one
\* although the clock is past a cooldown.
C25_Witness ==
    /\ pc = "dates"
    /\ req_count = 1
    /\ queries = 1
    /\ now >= HOUR
    /\ signed_in

====
